---- MODULE Spec2Model ----
(***************************************************************************)
(* Model of the accumulative-state plugin (src/AccumulateState.js), of the  *)
(* kill bonus plugin (src/Triacontane/StateEffect.js) and of the action    *)
(* result retention and critical customization plugins                     *)
(* (src/ActionResultKeep.js).                                              *)
(*                                                                         *)
(* Numbers are exact rationals <<numerator, denominator>> in lowest terms  *)
(* with a positive denominator.  Battlers are the engine objects the       *)
(* plugin patches; each one carries its active state set (_states) and the *)
(* two plugin maps (_stateAccumulations, _stateImmunity).  A map is a      *)
(* function whose DOMAIN is the set of keys present in the JS object.      *)
(***************************************************************************)
EXTENDS Integers, Sequences, FiniteSets, TLC

\* ------------------------------------------------------------------------
\* Exact rational arithmetic (JS numbers, without floating-point rounding)
\* ------------------------------------------------------------------------
Abs(n) == IF n < 0 THEN -n ELSE n

RECURSIVE GCD(_, _)
GCD(a, b) == IF b = 0 THEN a ELSE GCD(b, a % b)

Norm(n, d) ==
    LET s == IF d < 0 THEN -1 ELSE 1
        g == GCD(Abs(n), Abs(d))
    IN  IF n = 0 THEN <<0, 1>> ELSE <<(s * n) \div g, (s * d) \div g>>

Zero == <<0, 1>>
One == <<1, 1>>
Add(x, y) == Norm(x[1] * y[2] + y[1] * x[2], x[2] * y[2])
Sub(x, y) == Norm(x[1] * y[2] - y[1] * x[2], x[2] * y[2])
Mul(x, y) == Norm(x[1] * y[1], x[2] * y[2])
Leq(x, y) == x[1] * y[2] <= y[1] * x[2]
Lt(x, y) == x[1] * y[2] < y[1] * x[2]
RMax(x, y) == IF Leq(x, y) THEN y ELSE x
RMin(x, y) == IF Leq(x, y) THEN x ELSE y
\* variant: the upper limit is not applied
clampLow(x, lo, hi) == RMax(x, lo)

\* Number.prototype.clamp of the engine: Math.min(Math.max(this, min), max)
clamp(x, lo, hi) == RMin(RMax(x, lo), hi)

\* ------------------------------------------------------------------------
\* Database and bounds
\* ------------------------------------------------------------------------
\* $dataStates: states 1 and 2 carry <Accumulate>; state 1 is removed at
\* battle end; state 3 is an ordinary state.
StateIds == {1, 2, 3}
dataStates ==
    [id \in StateIds |->
        [Accumulate |-> id \in {1, 2}, removeAtBattleEnd |-> id \in {1, 3}]]

Battlers == {"actor1", "enemy0"}

\* largest stored accumulation from which the model still adds (in halves)
MaxAccumulationHalves == 3
\* largest immunity count from which the model still activates
MaxImmunity == 2
MaxAccumulation == <<MaxAccumulationHalves, 2>>

\* battlers: the battlers that exist; param: the plugin parameters;
\* last: the latest operation; spriteRate: _rate of the gauge sprite of actor 1;
\* kill: the latest kill bonus (the action's _gainHp, _gainMp, _gainTp and
\* the defeated enemy's _customRewardRate)
VARIABLES battlers, param, last, spriteRate, kill, conditions, criticalParam,
          dataSkills, logWindow, action, gameTemp, gameSwitches, gameVariables,
          recent

vars == <<battlers, param, last, spriteRate, kill, conditions, criticalParam,
          dataSkills, logWindow, action, gameTemp, gameSwitches, gameVariables,
          recent>>

\* ------------------------------------------------------------------------
\* Game_BattlerBase / Game_Battler
\* ------------------------------------------------------------------------
\* m[k] || 0
Get(m, k) == IF k \in DOMAIN m THEN m[k] ELSE Zero
GetInt(m, k) == IF k \in DOMAIN m THEN m[k] ELSE 0
Put(m, k, v) == [x \in DOMAIN m \cup {k} |-> IF x = k THEN v ELSE m[x]]
Delete(m, k) == [x \in DOMAIN m \ {k} |-> m[x]]
EmptyMap == [x \in {} |-> Zero]

\* variant: every state of the database counts as accumulative
isStateAccumulateAny(stateId) == stateId > 0 /\ stateId \in DOMAIN dataStates

isStateAccumulate(stateId) ==
    stateId > 0 /\ stateId \in DOMAIN dataStates /\ dataStates[stateId].Accumulate

isStateAffected(b, stateId) == stateId \in b.states

\* variant: the maps are emptied whether they exist or not
clearStateAccumulationsAlways(b) ==
    [states |-> b.states, stateAccumulations |-> [x \in {} |-> <<0, 1>>],
     stateImmunity |-> [x \in {} |-> 0]]

\* the maps are created when missing and otherwise left as they are; a
\* battler restored from a save written without the plugin has no maps
clearStateAccumulationsIfNeed(b) ==
    LET b1 == IF "stateAccumulations" \in DOMAIN b
              THEN b ELSE b @@ [stateAccumulations |-> EmptyMap]
    IN  IF "stateImmunity" \in DOMAIN b1
        THEN b1 ELSE b1 @@ [stateImmunity |-> [x \in {} |-> 0]]

\* variant: the two maps are emptied with the states
clearStatesReset(b) ==
    [b EXCEPT !.states = {}, !.stateAccumulations = [x \in {} |-> <<0, 1>>],
              !.stateImmunity = [x \in {} |-> 0]]

clearStates(b) ==
    clearStateAccumulationsIfNeed([b EXCEPT !.states = {}])

eraseState(b, stateId) ==
    LET b1 == clearStateAccumulationsIfNeed([b EXCEPT !.states = @ \ {stateId}])
    IN  [b1 EXCEPT !.stateAccumulations = Delete(@, stateId)]

\* variant: the engine's removal alone, the accumulation is kept
removeStateKeep(b, stateId) == [b EXCEPT !.states = @ \ {stateId}]

removeState(b, stateId) ==
    LET b1 == IF isStateAffected(b, stateId) THEN eraseState(b, stateId) ELSE b
        b2 == clearStateAccumulationsIfNeed(b1)
    IN  [b2 EXCEPT !.stateAccumulations = Delete(@, stateId)]

addState(b, stateId) == [b EXCEPT !.states = @ \cup {stateId}]

\* variants of accumulateState: the threshold test is > instead of >=; the
\* test for the state being active already is missing; a negative total is
\* stored as 0
accumulateStateWith(b, stateId, value, strict, recheck, floor) ==
    IF isStateAccumulate(stateId)
    THEN LET sum == Add(Get(b.stateAccumulations, stateId), value)
             total == IF floor THEN RMax(sum, Zero) ELSE sum
             b1 == [b EXCEPT !.stateAccumulations = Put(@, stateId, total)]
             reached == IF strict THEN Lt(One, total) ELSE Leq(One, total)
         IN  IF (recheck \/ ~isStateAffected(b1, stateId)) /\ reached
             THEN [battler |->
                      [addState(b1, stateId) EXCEPT
                          !.stateImmunity =
                              Put(@, stateId, GetInt(@, stateId) + 1)],
                   ret |-> TRUE]
             ELSE [battler |-> b1, ret |-> FALSE]
    ELSE [battler |-> b, ret |-> FALSE]

accumulateStateStrict(b, stateId, value) ==
    accumulateStateWith(b, stateId, value, TRUE, FALSE, FALSE)

accumulateStateRetrigger(b, stateId, value) ==
    accumulateStateWith(b, stateId, value, FALSE, TRUE, FALSE)

accumulateStateFloor(b, stateId, value) ==
    accumulateStateWith(b, stateId, value, FALSE, FALSE, TRUE)

\* returns the battler after the call and the call's return value
accumulateState(b, stateId, value) ==
    LET b0 == clearStateAccumulationsIfNeed(b)
    IN  IF isStateAccumulate(stateId)
        THEN LET total == Add(Get(b0.stateAccumulations, stateId), value)
                 b1 == [b0 EXCEPT !.stateAccumulations = Put(@, stateId, total)]
             IN  IF ~isStateAffected(b1, stateId) /\ Leq(One, total)
                 THEN [battler |->
                          [addState(b1, stateId) EXCEPT
                              !.stateImmunity =
                                  Put(@, stateId, GetInt(@, stateId) + 1)],
                       ret |-> TRUE]
                 ELSE [battler |-> b1, ret |-> FALSE]
        ELSE [battler |-> b0, ret |-> FALSE]

\* the elements of a set of numbers in ascending order
Sorted(S) ==
    CHOOSE q \in [1..Cardinality(S) -> S] :
        \A i, j \in 1..Cardinality(S) : i < j => q[i] < q[j]

\* variant: the reset does not look at removeAtBattleEnd
removeBattleStatesAll(b) ==
    LET ended == {id \in b.states : dataStates[id].removeAtBattleEnd}
        b1 == [b EXCEPT !.states = @ \ ended,
                        !.stateAccumulations =
                            [id \in DOMAIN @ \ ended |-> @[id]]]
    IN  IF param.ResetAccumulateEndBattle
        THEN [b1 EXCEPT !.stateAccumulations =
                 [id \in DOMAIN @ |-> IF Lt(Zero, @[id]) THEN Zero ELSE @[id]]]
        ELSE b1

\* The engine's removeBattleStates calls removeState for every active state
\* with removeAtBattleEnd; then the plugin's reset runs over the keys of
\* _stateAccumulations.
removeBattleStates(b) ==
    LET ended == Sorted({id \in b.states : dataStates[id].removeAtBattleEnd})
        RECURSIVE removeAll(_, _)
        removeAll(x, i) ==
            IF i > Len(ended) THEN x ELSE removeAll(removeState(x, ended[i]), i + 1)
        b1 == removeAll(b, 1)
    IN  IF param.ResetAccumulateEndBattle
        THEN [b1 EXCEPT !.stateAccumulations =
                 [stateId \in DOMAIN @ |->
                     IF dataStates[stateId].removeAtBattleEnd /\ Lt(Zero, @[stateId])
                     THEN Zero ELSE @[stateId]]]
        ELSE b1

\* variant: the resistance does not grow with the number of activations
getStateImmunityFlat(b, stateId) ==
    IF stateId \in DOMAIN b.stateImmunity
    THEN Norm(param.ImmunityRate, 100)
    ELSE Zero

getStateImmunity(b, stateId) ==
    IF stateId \in DOMAIN b.stateImmunity
    THEN Norm(b.stateImmunity[stateId] * param.ImmunityRate, 100)
    ELSE Zero

getStateAccumulation(b, stateId) == Get(b.stateAccumulations, stateId)

\* $dataActors: the note of actor 1 holds <AccumulateGaugeState:1>
dataActors == [t \in {"actor1"} |-> [AccumulateGaugeState |-> 1]]

\* undefined for a battler without the tag
getGaugeStateId(t) ==
    IF t \in DOMAIN dataActors THEN dataActors[t].AccumulateGaugeState ELSE 0

getGaugeStateAccumulation(b, t) == getStateAccumulation(b, getGaugeStateId(t))

\* variant: the gauge shows the stored value as it is
updateRateUncapped(b, t) == getGaugeStateAccumulation(b, t)

\* Sprite_AccumulateState.updateRate: the new _rate
updateRate(b, t) == RMin(getGaugeStateAccumulation(b, t), One)

\* Game_System.onAfterLoad: actors are the actors restored from the save
onAfterLoad(actors) ==
    [t \in DOMAIN actors |-> clearStateAccumulationsIfNeed(actors[t])]

\* ------------------------------------------------------------------------
\* Plugin parameters
\* ------------------------------------------------------------------------
\* param.AccumulateFormula: none, the formula of the help text, and a formula
\* whose evaluation throws (it names an undefined variable)
Formulas == {"", "a - (1.0 - b)", "a * c"}
ImmunityRates == {0, 50, 100}

Params ==
    [AccumulateFormula : Formulas, LuckAdjust : BOOLEAN, CertainHit : BOOLEAN,
     ImmunityRate : ImmunityRates, ResetAccumulateEndBattle : BOOLEAN]

\* the defaults of the plugin parameters
DefaultParam ==
    [AccumulateFormula |-> "", LuckAdjust |-> TRUE, CertainHit |-> TRUE,
     ImmunityRate |-> 0, ResetAccumulateEndBattle |-> FALSE]

\* the configurations the program is followed over time under: the defaults,
\* full immunity growth, and the battle-end reset
Configs ==
    {DefaultParam, [DefaultParam EXCEPT !.ImmunityRate = 100],
     [DefaultParam EXCEPT !.ResetAccumulateEndBattle = TRUE]}

\* ------------------------------------------------------------------------
\* Game_Action
\* ------------------------------------------------------------------------
\* eval(param.AccumulateFormula) with a and b bound; ok = FALSE when it throws
evalFormula(a, b) ==
    IF param.AccumulateFormula = "a - (1.0 - b)"
    THEN [ok |-> TRUE, value |-> Sub(a, Sub(One, b))]
    ELSE [ok |-> FALSE, value |-> Zero]

\* variant: a formula that throws leaves the rate at 0
applyResistanceZeroOnError(effectValue, target, stateId, stateRate, luk) ==
    LET r == evalFormula(effectValue, stateRate)
        v1 == IF param.AccumulateFormula # ""
              THEN (IF r.ok THEN r.value ELSE Zero)
              ELSE Mul(effectValue, stateRate)
        v2 == IF param.LuckAdjust THEN Mul(v1, luk) ELSE v1
        v3 == Mul(v2, Sub(One, getStateImmunity(target, stateId)))
    IN  [value |-> clamp(v3, Zero, One),
         buzzer |-> param.AccumulateFormula # "" /\ ~r.ok]

\* variant: without a formula the target's state rate is left out
applyResistanceSkipEffectiveness(effectValue, target, stateId, stateRate, luk) ==
    LET r == evalFormula(effectValue, stateRate)
        v1 == IF param.AccumulateFormula # ""
              THEN (IF r.ok THEN r.value ELSE effectValue)
              ELSE effectValue
        v2 == IF param.LuckAdjust THEN Mul(v1, luk) ELSE v1
        v3 == Mul(v2, Sub(One, getStateImmunity(target, stateId)))
    IN  [value |-> clamp(v3, Zero, One),
         buzzer |-> param.AccumulateFormula # "" /\ ~r.ok]

\* returns the accumulation rate and whether the buzzer was played
applyResistanceForAccumulateState(effectValue, target, stateId, stateRate, luk) ==
    LET r == evalFormula(effectValue, stateRate)
        v1 == IF param.AccumulateFormula # ""
              THEN (IF r.ok THEN r.value ELSE effectValue)
              ELSE Mul(effectValue, stateRate)
        v2 == IF param.LuckAdjust THEN Mul(v1, luk) ELSE v1
        v3 == Mul(v2, Sub(One, getStateImmunity(target, stateId)))
    IN  [value |-> clamp(v3, Zero, One),
         buzzer |-> param.AccumulateFormula # "" /\ ~r.ok]

\* one call of accumulateState made by a handler: its arguments and result
Call(stateId, value, ret) == [stateId |-> stateId, value |-> value, ret |-> ret]

\* variant: a certain hit goes through applyResistanceForAccumulateState too
itemEffectAddNormalStateAlwaysResist(target, dataId, value1, certainHit, stateRate, luk, hit) ==
    IF isStateAccumulate(dataId)
    THEN LET r == applyResistanceForAccumulateState(value1, target, dataId,
                                                    stateRate, luk)
             res == accumulateState(target, dataId, r.value)
         IN  [battler |-> res.battler,
              calls |-> <<Call(dataId, r.value, res.ret)>>,
              success |-> res.ret, buzzer |-> r.buzzer]
    ELSE [battler |-> IF hit THEN addState(target, dataId) ELSE target,
          calls |-> <<>>, success |-> hit, buzzer |-> FALSE]

\* An "Add State" effect.  For an accumulative state the plugin accumulates;
\* for any other state the engine's own handler runs, where hit tells whether
\* its random check succeeded.  Returns the target after the handler, the
\* accumulateState calls made, whether makeSuccess was called and whether the
\* buzzer was played.
itemEffectAddNormalState(target, dataId, value1, certainHit, stateRate, luk, hit) ==
    IF isStateAccumulate(dataId)
    THEN LET skip == certainHit /\ param.CertainHit
             r == applyResistanceForAccumulateState(value1, target, dataId,
                                                    stateRate, luk)
             accumulation == IF skip THEN value1 ELSE r.value
             res == accumulateState(target, dataId, accumulation)
         IN  [battler |-> res.battler,
              calls |-> <<Call(dataId, accumulation, res.ret)>>,
              success |-> res.ret, buzzer |-> ~skip /\ r.buzzer]
    ELSE [battler |-> IF hit THEN addState(target, dataId) ELSE target,
          calls |-> <<>>, success |-> hit, buzzer |-> FALSE]

\* the chance the engine's own "Add State" handler compares Math.random() with
normalStateChance(value1, certainHit, stateRate, luk) ==
    IF certainHit THEN value1 ELSE Mul(Mul(value1, stateRate), luk)

\* subject.attackStates(accumulateFlg); traits maps every attack state of the
\* subject to its attackStatesRate
attackStates(traits, accumulateFlg) ==
    {stateId \in DOMAIN traits : isStateAccumulate(stateId) = accumulateFlg}

\* the chance of the engine's own attack-state handler
attackStateChance(value1, traits, stateRates, luk, stateId) ==
    Mul(Mul(Mul(value1, traits[stateId]), stateRates[stateId]), luk)

\* An "Add State: Normal Attack" effect: the engine's handler over the
\* ordinary attack states (hits = those whose random check succeeded), then
\* the accumulation of every accumulative attack state of the subject.
itemEffectAddAttackState(target, value1, traits, stateRates, luk, hits) ==
    LET ids == Sorted(attackStates(traits, TRUE))
        b0 == [target EXCEPT !.states = @ \cup hits]
        RECURSIVE forEach(_, _)
        forEach(b, i) ==
            IF i > Len(ids) THEN [battler |-> b, calls |-> <<>>, buzzer |-> FALSE]
            ELSE LET stateId == ids[i]
                     r == applyResistanceForAccumulateState(
                              Mul(value1, traits[stateId]), b, stateId,
                              stateRates[stateId], luk)
                     res == accumulateState(b, stateId, r.value)
                     rest == forEach(res.battler, i + 1)
                 IN  [battler |-> rest.battler,
                      calls |-> <<Call(stateId, r.value, res.ret)>> \o rest.calls,
                      buzzer |-> r.buzzer \/ rest.buzzer]
        out == forEach(b0, 1)
    IN  [battler |-> out.battler, calls |-> out.calls,
         success |-> hits # {} \/ \E i \in 1..Len(out.calls) : out.calls[i].ret,
         buzzer |-> out.buzzer]

\* null, undefined
Null == <<>>

\* ------------------------------------------------------------------------
\* Kill bonus (src/Triacontane/StateEffect.js)
\* ------------------------------------------------------------------------
\* the defaults of one entry of param.bonusList (the fields that act on
\* battlers, recovery and reward rates)
DefaultSetting ==
    [hp |-> 0, hpRate |-> 0, mp |-> 0, mpRate |-> 0, tp |-> 0, tpRate |-> 0,
     goldRate |-> 100, expRate |-> 100,
     drop1Rate |-> 0, drop2Rate |-> 0, drop3Rate |-> 0,
     state |-> 0, stateParty |-> 0, stateTroop |-> 0]

MathMax(a, b) == IF a >= b THEN a ELSE b

\* variant: the latest bonus replaces the rates of the earlier ones
setRewardRateLatest(customRewardRate, drop1Rate, drop2Rate, drop3Rate, goldRate, expRate) ==
    [dropRate |-> <<drop1Rate, drop2Rate, drop3Rate>>,
     goldRate |-> goldRate, expRate |-> expRate]

\* returns _customRewardRate after the call
setRewardRate(customRewardRate, drop1Rate, drop2Rate, drop3Rate, goldRate, expRate) ==
    IF customRewardRate # Null
    THEN [dropRate |-> <<MathMax(customRewardRate.dropRate[1], drop1Rate),
                         MathMax(customRewardRate.dropRate[2], drop2Rate),
                         MathMax(customRewardRate.dropRate[3], drop3Rate)>>,
          goldRate |-> MathMax(customRewardRate.goldRate, goldRate),
          expRate |-> MathMax(customRewardRate.expRate, expRate)]
    ELSE [dropRate |-> <<drop1Rate, drop2Rate, drop3Rate>>,
          goldRate |-> goldRate, expRate |-> expRate]

clearRewardRate == Null

\* Math.floor(m * rate / 100)
FloorPercent(m, rate) == (m * rate) \div 100

\* gain is the action's _gainHp, _gainMp, _gainTp; subject gives the
\* defeater's mhp, mmp and maxTp()
executeKillBonusRecover(gain, data, subject) ==
    [gainHp |-> gain.gainHp
                   + (IF data.hp # 0 THEN data.hp ELSE 0)
                   + (IF data.hpRate # 0
                      THEN FloorPercent(subject.mhp, data.hpRate) ELSE 0),
     gainMp |-> gain.gainMp
                   + (IF data.mp # 0 THEN data.mp ELSE 0)
                   + (IF data.mpRate # 0
                      THEN FloorPercent(subject.mhp, data.mpRate) ELSE 0),
     gainTp |-> gain.gainTp
                   + (IF data.tp # 0 THEN data.tp ELSE 0)
                   + (IF data.tpRate # 0
                      THEN FloorPercent(subject.maxTp, data.tpRate) ELSE 0)]

\* $gameActors.actor(id) for id 1, 2 and $gameTroop.members()
gameActors == <<"actor1", "actor2">>
troopMembers == <<"enemy0", "enemy1">>

isActor(t) == \E id \in DOMAIN gameActors : gameActors[id] = t

\* bs: the battlers; the friends of the subject are the battlers of its
\* unit, its opponents those of the other unit
executeKillBonusState(bs, data, subject) ==
    LET b1 == IF data.state # 0
              THEN [bs EXCEPT ![subject] = addState(@, data.state)] ELSE bs
        b2 == IF data.stateParty # 0
              THEN [t \in DOMAIN b1 |->
                       IF isActor(t) = isActor(subject)
                       THEN addState(b1[t], data.stateParty) ELSE b1[t]]
              ELSE b1
    IN  IF data.stateTroop # 0
        THEN [t \in DOMAIN b2 |->
                 IF isActor(t) # isActor(subject)
                 THEN addState(b2[t], data.stateTroop) ELSE b2[t]]
        ELSE b2

executeKillBonusReward(customRewardRate, data) ==
    setRewardRate(customRewardRate, data.drop1Rate, data.drop2Rate,
                  data.drop3Rate, data.goldRate, data.expRate)

\* list: findKillBonusParamList of the subject, the bonuses that apply, in the
\* order of its trait objects.  Returns the battlers, the gains, the
\* resources gainHp/gainMp/gainTp was called for and the target's
\* _customRewardRate after the call.
executeKillBonus(bs, subject, stats, list) ==
    LET RECURSIVE forEach(_, _)
        forEach(acc, i) ==
            IF i > Len(list) THEN acc
            ELSE forEach(
                     [battlers |-> executeKillBonusState(acc.battlers, list[i], subject),
                      gain |-> executeKillBonusRecover(acc.gain, list[i], stats),
                      customRewardRate |->
                          executeKillBonusReward(acc.customRewardRate, list[i])],
                     i + 1)
        out == forEach([battlers |-> bs,
                        gain |-> [gainHp |-> 0, gainMp |-> 0, gainTp |-> 0],
                        customRewardRate |-> clearRewardRate], 1)
    IN  [battlers |-> out.battlers,
         gainHp |-> out.gain.gainHp, gainMp |-> out.gain.gainMp,
         gainTp |-> out.gain.gainTp,
         gained |-> {r \in {"hp", "mp", "tp"} :
                        \/ r = "hp" /\ out.gain.gainHp # 0
                        \/ r = "mp" /\ out.gain.gainMp # 0
                        \/ r = "tp" /\ out.gain.gainTp # 0},
         customRewardRate |-> out.customRewardRate]

\* The condition fields of a battler (_noSkill, _noDamage, _noDeath,
\* _usedSkillId) are a function whose DOMAIN holds the fields that have been
\* set; the constructor sets none, so a new battler reads undefined for each.
NewCondition == [x \in {} |-> FALSE]

initKillBonusCondition ==
    [noSkill |-> TRUE, noDamage |-> TRUE, noDeath |-> TRUE, usedSkillId |-> 0]

breakNoSkill(c) == ("noSkill" :> FALSE) @@ c

breakNoDamage(c) == ("noDamage" :> FALSE) @@ c

breakNoDeath(c) == ("noDeath" :> FALSE) @@ c

setUsedSkillId(c, skillId) == ("usedSkillId" :> skillId) @@ c

\* the truth value of this._noSkill, this._noDamage, this._noDeath: undefined
\* is falsy
Flag(c, f) == f \in DOMAIN c /\ c[f]

\* the defaults of the condition of a bonus
DefaultCondition ==
    [noDamage |-> FALSE, noSkill |-> FALSE, noDeath |-> FALSE, critical |-> FALSE,
     switchId |-> 0, skillId |-> 0, turnCount |-> 0, script |-> ""]

\* c: the condition fields of the defeater; env: $gameTroop.turnCount(), the
\* switches that are ON and the value of eval(condition.script)
checkDataForKillBonus(c, data, critical, env) ==
    IF "condition" \notin DOMAIN data \/ data.condition = Null THEN TRUE
    ELSE LET condition == data.condition
         IN  ~ \/ condition.noDamage /\ ~Flag(c, "noDamage")
               \/ condition.noSkill /\ ~Flag(c, "noSkill")
               \/ condition.noDeath /\ ~Flag(c, "noDeath")
               \/ /\ condition.skillId # 0
                  /\ ("usedSkillId" \notin DOMAIN c
                         \/ c.usedSkillId # condition.skillId)
               \/ condition.critical /\ ~critical
               \/ condition.turnCount > 0 /\ condition.turnCount < env.turnCount
               \/ condition.switchId > 0 /\ condition.switchId \notin env.switches
               \/ condition.script # "" /\ ~env.script

\* objs: findKillBonusParam of each trait object of the defeater, Null for an
\* object without a bonus
findKillBonusParamList(c, objs, critical, env) ==
    SelectSeq(objs, LAMBDA data :
                        data # Null /\ checkDataForKillBonus(c, data, critical, env))

\* no battle has been set up
NoConditions == [b \in Battlers |-> NewCondition]

\* the attack skill, the guard skill, another skill and an item
attackSkillId == 1
guardSkillId == 2
Items == {[isSkill |-> TRUE, id |-> attackSkillId],
          [isSkill |-> TRUE, id |-> guardSkillId],
          [isSkill |-> TRUE, id |-> 3], [isSkill |-> FALSE, id |-> 1]}

isAttack(item) == item.isSkill /\ item.id = attackSkillId

isGuard(item) == item.isSkill /\ item.id = guardSkillId

\* the condition fields of the subject after testApply returned result
testApply(c, item, result) ==
    IF result
    THEN LET c1 == IF ~isAttack(item) /\ ~isGuard(item) THEN breakNoSkill(c) ELSE c
         IN  IF item.isSkill THEN setUsedSkillId(c1, item.id) ELSE c1
    ELSE c

\* no kill bonus has been executed
NoKill == [subject |-> "", target |-> "",
           stats |-> [mhp |-> 0, mmp |-> 0, maxTp |-> 0], list |-> <<>>,
           gainHp |-> 0, gainMp |-> 0, gainTp |-> 0, gained |-> {},
           customRewardRate |-> Null]

\* ------------------------------------------------------------------------
\* Critical customization (src/ActionResultKeep.js, second plugin)
\* ------------------------------------------------------------------------
\* the parameters of the plugin as the plugin manager delivers them
DefaultCriticalParam ==
    [commonFormula |-> "", commonMessage |-> "", commonAnimation |-> 0,
     suppressDefault |-> FALSE]

\* A skill of the database: animationId, damage.type and the values of its
\* memo tags, 0 or "" for a tag that is not written.  Damage types 3 and 4
\* recover, type 0 is "None"; animationId 0 is none, -1 the normal attack.
Skill(animationId, damageType, formula, change, add, animation) ==
    [animationId |-> animationId, damageType |-> damageType,
     CCFormula |-> formula, CCProbChange |-> change, CCProbAdd |-> add,
     CCAnimation |-> animation]

\* $dataSkills as loaded
DataSkills ==
    (1 :> Skill(-1, 1, "", 0, 50, 5)
     @@ 2 :> Skill(0, 1, "a.atk * 4", 0, 0, 6)
     @@ 3 :> Skill(7, 3, "normalDamage * 2", 100, 0, 0)
     @@ 4 :> Skill(8, 0, "", 0, 0, 5))

\* the memo tags of the trait objects of a battler: <CCMessage>, <CCAnimation>
criticalEffects ==
    [b \in Battlers |->
        IF isActor(b) THEN [CCMessage |-> "A decisive blow!", CCAnimation |-> 4]
        ELSE [CCMessage |-> "", CCAnimation |-> 0]]

\* the plugin fields of Window_BattleLog, unset ones read as 0, null and
\* false; currentAction refers to the action by its item; methods: what
\* showCriticalEffect pushed for the latest action
NewLogWindow ==
    [noCritialAnimationId |-> 0, currentAction |-> Null,
     suppressCritialMessage |-> FALSE, methods |-> <<>>]

findCriticalFormula(item, p) ==
    IF item.CCFormula # "" THEN item.CCFormula ELSE p.commonFormula

\* eval(formula) with a.atk = atk, b.def = def: a number, NaN or an exception
evalCritical(formula, atk, def, normalDamage) ==
    CASE formula = "a.atk * 4" -> [kind |-> "number", n |-> atk * 4]
      [] formula = "normalDamage * 2" -> [kind |-> "number", n |-> normalDamage * 2]
      [] formula = "a.atk - b.def * 2" -> [kind |-> "number", n |-> atk - def * 2]
      [] formula = "a.atk * b.foo" -> [kind |-> "NaN"]
      [] OTHER -> [kind |-> "throws"]

\* variant: the sign of recovery is not applied
evalDamageFormulaUnsigned(item, p, critical, atk, def, normalDamage) ==
    LET formula == findCriticalFormula(item, p)
    IN  IF formula # "" /\ critical
        THEN LET v == evalCritical(formula, atk, def, normalDamage)
             IN  IF v.kind = "number" THEN MathMax(v.n, 0) ELSE 0
        ELSE normalDamage

\* normalDamage: what the engine's evalDamageFormula returns
evalDamageFormula(item, p, critical, atk, def, normalDamage) ==
    LET formula == findCriticalFormula(item, p)
    IN  IF formula # "" /\ critical
        THEN LET v == evalCritical(formula, atk, def, normalDamage)
                 sign == IF item.damageType \in {3, 4} THEN -1 ELSE 1
             IN  IF v.kind = "number" THEN MathMax(v.n, 0) * sign ELSE 0
        ELSE normalDamage

\* the engine multiplies critical damage by 3
applyCritical(item, p, damage) ==
    IF findCriticalFormula(item, p) # "" THEN damage ELSE damage * 3

\* the chance judgeCritical compares Math.random() with; cri is the engine's
\* itemCri
itemCritical(item, cri) ==
    IF item.CCProbChange # 0 THEN Norm(item.CCProbChange, 100)
    ELSE Add(cri, IF item.CCProbAdd # 0 THEN Norm(item.CCProbAdd, 100) ELSE Zero)

\* the queue after judgeCritical; outcome is Math.random() < itemCritical
judgeCritical(queue, item, outcome) ==
    IF item.CCProbChange # 0 THEN Append(queue, outcome)
    ELSE IF item.damageType = 0 THEN queue
    ELSE Append(queue, outcome)

\* BattleManager.judgeCritical: the queue of the action, one outcome drawn per
\* target
BattleManagerJudgeCritical(item, outcomes) ==
    LET RECURSIVE forEach(_, _)
        forEach(queue, i) ==
            IF i > Len(outcomes) THEN queue
            ELSE forEach(judgeCritical(queue, item, outcomes[i]), i + 1)
    IN  forEach(<<>>, 1)

\* variant: only the first outcome counts
isCriticalFirst(queue) ==
    IF queue = Null THEN FALSE ELSE Len(queue) > 0 /\ queue[1]

isCritical(queue) ==
    IF queue = Null THEN FALSE ELSE \E i \in 1..Len(queue) : queue[i]

\* the chance returned and the queue afterwards
itemCri(queue, cri) ==
    IF Len(queue) > 0
    THEN [chance |-> IF Head(queue) THEN One ELSE Zero, queue |-> Tail(queue)]
    ELSE [chance |-> cri, queue |-> queue]

\* the log window after showCriticalEffect; methods: what it pushed
showCriticalEffect(log, subject, p) ==
    LET own == criticalEffects[subject]
        message == IF own.CCMessage # "" THEN own.CCMessage ELSE p.commonMessage
        animationId == IF own.CCAnimation # 0 THEN own.CCAnimation
                       ELSE p.commonAnimation
    IN  [log EXCEPT
            !.suppressCritialMessage =
                IF message # "" /\ p.suppressDefault THEN TRUE ELSE @,
            !.methods = (IF message # "" THEN <<"addText">> ELSE <<>>)
                        \o (IF animationId > 0
                            THEN <<"showNormalAnimation", "waitForAnimation">>
                            ELSE <<>>)]

\* critical: target.result().critical; text: the engine's displayCritical has
\* added the default message
displayCritical(log, critical) ==
    IF log.suppressCritialMessage
    THEN [logWindow |-> [log EXCEPT !.suppressCritialMessage = FALSE],
          text |-> FALSE]
    ELSE [logWindow |-> log, text |-> critical]

\* the log window and the database after startAction of an action with the
\* given item, whose queue BattleManager.judgeCritical has filled
startAction(log, skills, subject, itemId, queue, p) ==
    LET item == skills[itemId]
        log0 == [log EXCEPT !.noCritialAnimationId = 0,
                            !.currentAction = [item |-> itemId],
                            !.methods = <<>>]
    IN  IF isCritical(queue)
        THEN LET log1 == showCriticalEffect(log0, subject, p)
             IN  IF item.CCAnimation # 0
                 THEN [logWindow |->
                           [log1 EXCEPT !.noCritialAnimationId = item.animationId],
                       dataSkills |->
                           [skills EXCEPT ![itemId].animationId = item.CCAnimation]]
                 ELSE [logWindow |-> log1, dataSkills |-> skills]
        ELSE [logWindow |-> log0, dataSkills |-> skills]

endAction(log, skills) ==
    IF log.noCritialAnimationId # 0
    THEN [logWindow |-> [log EXCEPT !.noCritialAnimationId = 0,
                                    !.currentAction = Null],
          dataSkills |-> [skills EXCEPT
                             ![log.currentAction.item].animationId =
                                 log.noCritialAnimationId]]
    ELSE [logWindow |-> [log EXCEPT !.currentAction = Null],
          dataSkills |-> skills]

\* ------------------------------------------------------------------------
\* Action result retention (src/ActionResultKeep.js, first plugin)
\* ------------------------------------------------------------------------
\* $gameTemp: the engine's _lastActionData (used skill, used item, subject
\* actor id, subject enemy index, target actor id, target enemy index) and the
\* fields of Game_LastAction, whose initial null reads as false
NewGameTemp ==
    [lastActionData |-> <<0, 0, 0, 0, 0, 0>>,
     subjectIsActor |-> FALSE, targetIsActor |-> FALSE, usingIsSkill |-> FALSE]

\* $gameTemp.lastActionData(type)
lastActionData(temp, type) == temp.lastActionData[type + 1]

\* subject.actorId(), subject.index()
actorIdOf(b) == CHOOSE id \in DOMAIN gameActors : gameActors[id] = b
indexOf(b) == (CHOOSE i \in DOMAIN troopMembers : troopMembers[i] = b) - 1

\* the engine stores the actor id or the enemy index plus one, the plugin the
\* kind of the subject
updateLastSubject(temp, subject) ==
    [temp EXCEPT
        !.lastActionData = IF isActor(subject) THEN [@ EXCEPT ![3] = actorIdOf(subject)]
                           ELSE [@ EXCEPT ![4] = indexOf(subject) + 1],
        !.subjectIsActor = isActor(subject)]

updateLastTarget(temp, target) ==
    [temp EXCEPT
        !.lastActionData = IF isActor(target) THEN [@ EXCEPT ![5] = actorIdOf(target)]
                           ELSE [@ EXCEPT ![6] = indexOf(target) + 1],
        !.targetIsActor = isActor(target)]

updateLastUsed(temp, item) ==
    [temp EXCEPT
        !.lastActionData = IF item.isSkill THEN [@ EXCEPT ![1] = item.id]
                           ELSE [@ EXCEPT ![2] = item.id],
        !.usingIsSkill = item.isSkill]

\* the battler an actor id or a troop position names, "" for none
actor(id) == IF id \in DOMAIN gameActors THEN gameActors[id] ELSE ""
member(i) == IF i + 1 \in DOMAIN troopMembers THEN troopMembers[i + 1] ELSE ""

\* variant: an actor that has acted before is preferred
findSubjectActorFirst(temp) ==
    IF lastActionData(temp, 2) # 0 THEN actor(lastActionData(temp, 2))
    ELSE member(lastActionData(temp, 3) - 1)

findSubject(temp) ==
    IF temp.subjectIsActor THEN actor(lastActionData(temp, 2))
    ELSE member(lastActionData(temp, 3) - 1)

findTarget(temp) ==
    IF temp.targetIsActor THEN actor(lastActionData(temp, 4))
    ELSE member(lastActionData(temp, 5) - 1)

\* $dataSkills[id] or $dataItems[id]
findItem(temp) ==
    IF temp.usingIsSkill THEN [isSkill |-> TRUE, id |-> lastActionData(temp, 0)]
    ELSE [isSkill |-> FALSE, id |-> lastActionData(temp, 1)]

\* the parameters of the plugin
keepParam ==
    [flagResultList |-> <<[switchId |-> 1, property |-> "critical"],
                          [switchId |-> 2, property |-> "missed"],
                          [switchId |-> 3, property |-> "success"]>>,
     variableResultList |-> <<[variableId |-> 1, property |-> "hpDamage"],
                              [variableId |-> 2, property |-> "addedStates"]>>]

\* the switches and the variables after updateResult
updateResult(switches, variables, result) ==
    LET RECURSIVE setSwitches(_, _)
        setSwitches(data, i) ==
            IF i > Len(keepParam.flagResultList) THEN data
            ELSE setSwitches(Put(data, keepParam.flagResultList[i].switchId,
                                 result[keepParam.flagResultList[i].property]),
                             i + 1)
        RECURSIVE setVariables(_, _)
        setVariables(data, i) ==
            IF i > Len(keepParam.variableResultList) THEN data
            ELSE setVariables(Put(data, keepParam.variableResultList[i].variableId,
                                  result[keepParam.variableResultList[i].property]),
                              i + 1)
    IN  [gameSwitches |-> setSwitches(switches, 1),
         gameVariables |-> setVariables(variables, 1)]

\* no action yet: the subject, item, target and result of the latest action
NoRecent == [subject |-> "", item |-> Null, target |-> "", result |-> Null]

\* Math.random() < chance can come out as hit only when chance > 0 and must
\* when chance >= 1
CanBe(hit, chance) == (hit => Lt(Zero, chance)) /\ (Leq(One, chance) => hit)

\* ------------------------------------------------------------------------
\* State machine
\* ------------------------------------------------------------------------
NewBattler == [states |-> {}, stateAccumulations |-> EmptyMap,
               stateImmunity |-> [x \in {} |-> 0]]

\* last: the operation of the latest step, the battlers it was applied to,
\* whether it marked the action as successful (makeSuccess) and whether it
\* played the buzzer
Last(op, targets, success, buzzer) ==
    [op |-> op, targets |-> targets, success |-> success, buzzer |-> buzzer]

\* the model stops adding to an entry that is out of the modelled range
InRange(b, stateId) ==
    /\ Lt(getStateAccumulation(b, stateId), MaxAccumulation)
    /\ Leq(Zero, getStateAccumulation(b, stateId))
    /\ GetInt(b.stateImmunity, stateId) < MaxImmunity

\* $gameActors.actor(actorId) and $gameTroop.members()[enemyIndex]: the
\* battlers the command addresses, none for an id or index that names nobody
commandTargets(bs, actorId, enemyIndex) ==
    (IF actorId = 1 /\ "actor1" \in DOMAIN bs THEN {"actor1"} ELSE {})
        \cup (IF enemyIndex = 0 /\ "enemy0" \in DOMAIN bs THEN {"enemy0"} ELSE {})

\* variant: the command reaches the actor only
commandActorOnly(bs, actorId, enemyIndex, stateId, r) ==
    [b \in DOMAIN bs |->
        IF b = "actor1" /\ actorId = 1
        THEN accumulateState(bs[b], stateId, Norm(r, 100)).battler
        ELSE bs[b]]

\* the battlers after the command
commandACCUMULATE(bs, actorId, enemyIndex, stateId, r) ==
    [b \in DOMAIN bs |->
        IF b \in commandTargets(bs, actorId, enemyIndex)
        THEN accumulateState(bs[b], stateId, Norm(r, 100)).battler
        ELSE bs[b]]

\* plugin command ACCUMULATE
ACCUMULATE(actorId, enemyIndex, stateId, r) ==
    LET who == commandTargets(battlers, actorId, enemyIndex)
    IN  /\ \A b \in who : InRange(battlers[b], stateId)
        /\ battlers' = commandACCUMULATE(battlers, actorId, enemyIndex, stateId, r)
        /\ last' = Last("ACCUMULATE", who, FALSE, FALSE)
        /\ UNCHANGED <<param, spriteRate, kill, conditions, criticalParam,
                       dataSkills, logWindow, action, gameTemp, gameSwitches,
                       gameVariables, recent>>

AddNormalState(target, dataId, value1, certainHit, stateRate, luk, hit) ==
    LET out == itemEffectAddNormalState(battlers[target], dataId, value1,
                                        certainHit, stateRate, luk, hit)
    IN  /\ IF isStateAccumulate(dataId)
           THEN ~hit /\ InRange(battlers[target], dataId)
           ELSE CanBe(hit, normalStateChance(value1, certainHit, stateRate, luk))
        /\ battlers' = [battlers EXCEPT ![target] = out.battler]
        /\ last' = Last("itemEffectAddNormalState", {target}, out.success, out.buzzer)
        /\ UNCHANGED <<param, spriteRate, kill, conditions, criticalParam,
                       dataSkills, logWindow, action, gameTemp, gameSwitches,
                       gameVariables, recent>>

AddAttackState(target, value1, traits, stateRates, luk, hits) ==
    LET out == itemEffectAddAttackState(battlers[target], value1, traits,
                                        stateRates, luk, hits)
    IN  /\ hits \subseteq attackStates(traits, FALSE)
        /\ \A stateId \in attackStates(traits, FALSE) :
               CanBe(stateId \in hits,
                     attackStateChance(value1, traits, stateRates, luk, stateId))
        /\ \A stateId \in attackStates(traits, TRUE) :
               InRange(battlers[target], stateId)
        /\ battlers' = [battlers EXCEPT ![target] = out.battler]
        /\ last' = Last("itemEffectAddAttackState", {target}, out.success, out.buzzer)
        /\ UNCHANGED <<param, spriteRate, kill, conditions, criticalParam,
                       dataSkills, logWindow, action, gameTemp, gameSwitches,
                       gameVariables, recent>>

RemoveState(target, stateId) ==
    /\ battlers' = [battlers EXCEPT ![target] = removeState(@, stateId)]
    /\ last' = Last("removeState", {target}, FALSE, FALSE)
    /\ UNCHANGED <<param, spriteRate, kill, conditions, criticalParam,
                   dataSkills, logWindow, action, gameTemp, gameSwitches,
                   gameVariables, recent>>

EraseState(target, stateId) ==
    /\ battlers' = [battlers EXCEPT ![target] = eraseState(@, stateId)]
    /\ last' = Last("eraseState", {target}, FALSE, FALSE)
    /\ UNCHANGED <<param, spriteRate, kill, conditions, criticalParam,
                   dataSkills, logWindow, action, gameTemp, gameSwitches,
                   gameVariables, recent>>

ClearStates(target) ==
    /\ battlers' = [battlers EXCEPT ![target] = clearStates(@)]
    /\ last' = Last("clearStates", {target}, FALSE, FALSE)
    /\ UNCHANGED <<param, spriteRate, kill, conditions, criticalParam,
                   dataSkills, logWindow, action, gameTemp, gameSwitches,
                   gameVariables, recent>>

RemoveBattleStates(target) ==
    /\ battlers' = [battlers EXCEPT ![target] = removeBattleStates(@)]
    /\ last' = Last("removeBattleStates", {target}, FALSE, FALSE)
    /\ UNCHANGED <<param, spriteRate, kill, conditions, criticalParam,
                   dataSkills, logWindow, action, gameTemp, gameSwitches,
                   gameVariables, recent>>

\* executeHpDamage has brought the target's hp to 0
ExecuteKillBonus(subject, target, stats, list) ==
    LET out == executeKillBonus(battlers, subject, stats, list)
    IN  /\ battlers' = out.battlers
        /\ kill' = [subject |-> subject, target |-> target, stats |-> stats,
                    list |-> list, gainHp |-> out.gainHp, gainMp |-> out.gainMp,
                    gainTp |-> out.gainTp, gained |-> out.gained,
                    customRewardRate |-> out.customRewardRate]
        /\ last' = Last("executeKillBonus", {subject}, FALSE, FALSE)
        /\ UNCHANGED <<param, spriteRate, conditions, criticalParam, dataSkills,
                       logWindow, action, gameTemp, gameSwitches, gameVariables,
                       recent>>

\* Sprite_AccumulateState.update of the sprite of battler t; shown tells
\* whether the gauge switch and the menu let the gauge be visible
Update(t, shown) ==
    LET visible == getGaugeStateId(t) # 0 /\ shown
    IN  /\ spriteRate' = IF visible THEN updateRate(battlers[t], t) ELSE spriteRate
        /\ last' = Last("updateRate", {t}, FALSE, FALSE)
        /\ UNCHANGED <<battlers, param, kill, conditions, criticalParam,
                       dataSkills, logWindow, action, gameTemp, gameSwitches,
                       gameVariables, recent>>

\* A save is loaded: the actors are replaced by the saved ones, the troop is
\* not part of a save, the scene and its sprites are created anew, and
\* onAfterLoad runs.
Load(actors) ==
    /\ battlers' = onAfterLoad(actors)
    /\ spriteRate' = Null
    /\ last' = Last("onAfterLoad", DOMAIN actors, FALSE, FALSE)
    /\ UNCHANGED <<param, kill, conditions, criticalParam, dataSkills,
                   logWindow, action, gameTemp, gameSwitches, gameVariables,
                   recent>>

\* BattleManager.setup: the troop is made of new enemies, then every party
\* member gets initKillBonusCondition
Setup ==
    /\ conditions' = [b \in Battlers |->
                         IF isActor(b) THEN initKillBonusCondition
                         ELSE NewCondition]
    /\ battlers' = [b \in DOMAIN battlers |->
                       IF isActor(b) THEN battlers[b] ELSE clearStates(NewBattler)]
    /\ last' = Last("setup", Battlers, FALSE, FALSE)
    /\ UNCHANGED <<param, spriteRate, kill, criticalParam, dataSkills,
                   logWindow, action, gameTemp, gameSwitches, gameVariables,
                   recent>>

PerformDamage(target) ==
    /\ conditions' = [conditions EXCEPT ![target] = breakNoDamage(@)]
    /\ last' = Last("performDamage", {target}, FALSE, FALSE)
    /\ UNCHANGED <<battlers, param, spriteRate, kill, criticalParam, dataSkills,
                   logWindow, action, gameTemp, gameSwitches, gameVariables,
                   recent>>

\* the engine's die clears the states of the battler
Die(target) ==
    /\ conditions' = [conditions EXCEPT ![target] = breakNoDeath(@)]
    /\ battlers' = [battlers EXCEPT ![target] = clearStates(@)]
    /\ last' = Last("die", {target}, FALSE, FALSE)
    /\ UNCHANGED <<param, spriteRate, kill, criticalParam, dataSkills,
                   logWindow, action, gameTemp, gameSwitches, gameVariables,
                   recent>>

\* result: what the engine's testApply returns
TestApply(subject, item, result) ==
    /\ conditions' = [conditions EXCEPT ![subject] = testApply(@, item, result)]
    /\ last' = Last(IF ~result THEN "testApplyFailed"
                    ELSE IF isAttack(item) THEN "testApplyAttack"
                    ELSE IF isGuard(item) THEN "testApplyGuard"
                    ELSE "testApply",
                    {subject}, FALSE, FALSE)
    /\ UNCHANGED <<battlers, param, spriteRate, kill, criticalParam, dataSkills,
                   logWindow, action, gameTemp, gameSwitches, gameVariables,
                   recent>>

\* BattleManager.startAction hands the action and its targets to the log
\* window; outcomes are the values of Math.random() < itemCritical, one per
\* target, cri the engine's itemCri.  The action keeps what was judged
\* (judged), the animation of its item before the start (original) and what
\* happened to each target so far (invoked).
StartAction(subject, itemId, targets, outcomes, cri) ==
    LET item == dataSkills[itemId]
        queue == BattleManagerJudgeCritical(item, outcomes)
        out == startAction(logWindow, dataSkills, subject, itemId, queue,
                           criticalParam)
    IN  /\ logWindow.currentAction = Null
        /\ Len(outcomes) = Len(targets)
        /\ \A i \in 1..Len(outcomes) : CanBe(outcomes[i], itemCritical(item, cri))
        /\ action' = [subject |-> subject, item |-> itemId, targets |-> targets,
                      criticalQueue |-> queue, judged |-> queue,
                      original |-> item.animationId, invoked |-> <<>>]
        /\ logWindow' = out.logWindow
        /\ dataSkills' = out.dataSkills
        /\ last' = Last("startAction", {subject}, FALSE, FALSE)
        /\ UNCHANGED <<battlers, param, spriteRate, kill, conditions,
                       criticalParam, gameTemp, gameSwitches, gameVariables,
                       recent>>

\* BattleManager.invokeAction for the next target: the engine's apply, which
\* asks itemCri for a target that is hit by an item with a damage type and
\* computes the damage, then displayActionResults, which calls
\* displayCritical when the result is used.  used: testApply; hit: neither
\* missed nor evaded; roll: Math.random() < this.itemCri(target); value: the
\* damage value when every other rate of makeDamageValue is 1.
InvokeAction(used, hit, roll, cri, atk, def, normalDamage) ==
    LET n == Len(action.invoked) + 1
        item == dataSkills[action.item]
        damaging == used /\ hit /\ item.damageType > 0
        cr == itemCri(action.criticalQueue, cri)
        critical == damaging /\ roll
        base == evalDamageFormula(item, criticalParam, critical, atk, def,
                                  normalDamage)
        value == IF ~damaging THEN 0
                 ELSE IF critical THEN applyCritical(item, criticalParam, base)
                 ELSE base
        shown == IF used THEN displayCritical(logWindow, critical)
                 ELSE [logWindow |-> logWindow, text |-> FALSE]
    IN  /\ logWindow.currentAction # Null
        /\ n <= Len(action.targets)
        /\ hit => used
        /\ IF damaging THEN CanBe(roll, cr.chance) ELSE ~roll
        /\ action' = [action EXCEPT
                         !.criticalQueue = IF damaging THEN cr.queue ELSE @,
                         !.invoked = Append(@, [target |-> action.targets[n],
                                                used |-> used, hit |-> used /\ hit,
                                                critical |-> critical,
                                                text |-> shown.text,
                                                atk |-> atk, def |-> def,
                                                normalDamage |-> normalDamage,
                                                value |-> value])]
        /\ logWindow' = shown.logWindow
        /\ last' = Last("invokeAction", {action.targets[n]}, FALSE, FALSE)
        /\ UNCHANGED <<battlers, param, spriteRate, kill, conditions,
                       criticalParam,
                       dataSkills, gameTemp, gameSwitches, gameVariables, recent>>

\* BattleManager.endAction, when no target is left
EndAction ==
    LET out == endAction(logWindow, dataSkills)
    IN  /\ logWindow.currentAction # Null
        /\ Len(action.invoked) = Len(action.targets)
        /\ logWindow' = out.logWindow
        /\ dataSkills' = out.dataSkills
        /\ last' = Last("endAction", {action.subject}, FALSE, FALSE)
        /\ UNCHANGED <<battlers, param, spriteRate, kill, conditions,
                       criticalParam,
                       action, gameTemp, gameSwitches, gameVariables, recent>>

\* Game_Action.applyGlobal, at the start of an action: updateLastUsed and
\* updateLastSubject
ApplyGlobal(subject, item) ==
    /\ gameTemp' = updateLastSubject(updateLastUsed(gameTemp, item), subject)
    /\ recent' = [recent EXCEPT !.subject = subject, !.item = item]
    /\ last' = Last("applyGlobal", {subject}, FALSE, FALSE)
    /\ UNCHANGED <<battlers, param, spriteRate, kill, conditions, criticalParam,
                   dataSkills, logWindow, action, gameSwitches, gameVariables>>

\* Game_Action.apply on a target: the engine fills target.result() and calls
\* updateLastTarget, then the plugin stores the result
Apply(target, result) ==
    LET out == updateResult(gameSwitches, gameVariables, result)
    IN  /\ recent.subject # ""
        /\ gameTemp' = updateLastTarget(gameTemp, target)
        /\ gameSwitches' = out.gameSwitches
        /\ gameVariables' = out.gameVariables
        /\ recent' = [recent EXCEPT !.target = target, !.result = result]
        /\ last' = Last("apply", {target}, FALSE, FALSE)
        /\ UNCHANGED <<battlers, param, spriteRate, kill, conditions,
                       criticalParam,
                       dataSkills, logWindow, action>>

\* ------------------------------------------------------------------------
\* Inputs
\* ------------------------------------------------------------------------
Half == <<1, 2>>
Two == <<2, 1>>
\* effect.value1 of an "Add State" effect (the editor allows 0% to 1000%)
Value1s == {Half, <<4, 5>>, One, <<3, 2>>}
\* target.stateRate(stateId), subject.attackStatesRate(stateId)
Rates == {Zero, Half, Two}
\* lukEffectRate(target)
LukRates == {Half, <<11, 10>>}
\* the target's state rates, one per state
TargetStateRates == {[s \in StateIds |-> r] : r \in Rates}
\* the subject's attack states with their rates
AttackTraits ==
    {(1 :> One), (3 :> One), (1 :> Half @@ 2 :> Two), (2 :> One @@ 3 :> Half)}

\* one step of the program with its inputs drawn from the given sets
Step(value1s, targetStateRates, lukRates, attackTraits, commandRates) ==
    \/ \E actorId \in {0, 1}, enemyIndex \in {-1, 0}, stateId \in {0} \cup StateIds,
          rate \in commandRates : ACCUMULATE(actorId, enemyIndex, stateId, rate)
    \/ \E target \in DOMAIN battlers, dataId \in StateIds, value1 \in value1s,
          certainHit \in BOOLEAN, stateRates \in targetStateRates, luk \in lukRates,
          hit \in BOOLEAN :
          AddNormalState(target, dataId, value1, certainHit, stateRates[dataId],
                         luk, hit)
    \/ \E target \in DOMAIN battlers, value1 \in value1s, traits \in attackTraits,
          stateRates \in targetStateRates, luk \in lukRates,
          hits \in SUBSET StateIds :
          AddAttackState(target, value1, traits, stateRates, luk, hits)
    \/ \E target \in DOMAIN battlers, stateId \in StateIds : RemoveState(target, stateId)
    \/ \E target \in DOMAIN battlers, stateId \in StateIds : EraseState(target, stateId)
    \/ \E target \in DOMAIN battlers : ClearStates(target)
    \/ \E target \in DOMAIN battlers : RemoveBattleStates(target)

\* The program over time: accumulation in steps of one half.
Init ==
    /\ param \in Configs
    /\ battlers = [b \in {"actor1"} |-> clearStates(NewBattler)]
    /\ last = Last("none", {}, FALSE, FALSE)
    /\ spriteRate = Null
    /\ kill = NoKill
    /\ recent = NoRecent
    /\ gameVariables = EmptyMap
    /\ gameSwitches = EmptyMap
    /\ gameTemp = NewGameTemp
    /\ action = Null
    /\ logWindow = NewLogWindow
    /\ dataSkills = DataSkills
    /\ criticalParam = DefaultCriticalParam
    /\ conditions = NoConditions

Next ==
    Step({Half, <<3, 2>>}, {[s \in StateIds |-> One]}, {One},
         {(1 :> One), (1 :> One @@ 2 :> One @@ 3 :> One)}, {-50, 50})

Spec == Init /\ [][Next]_vars

\* One operation with fine-grained inputs, under every configuration, applied
\* to a target that has or has not triggered state 1 before.
RateBattlers ==
    {[NewBattler EXCEPT !.stateAccumulations = acc, !.stateImmunity = imm] :
        acc \in {EmptyMap, (1 :> Half)},
        imm \in {[x \in {} |-> 0], (1 :> 1), (1 :> 2)}}

\* every configuration of the parameters that enter the rate
RateParams ==
    {p \in Params :
        p.ResetAccumulateEndBattle = DefaultParam.ResetAccumulateEndBattle}

InitRate ==
    /\ param \in RateParams
    /\ battlers \in [{"actor1"} -> RateBattlers]
    /\ last = Last("none", {}, FALSE, FALSE)
    /\ spriteRate = Null
    /\ kill = NoKill
    /\ recent = NoRecent
    /\ gameVariables = EmptyMap
    /\ gameSwitches = EmptyMap
    /\ gameTemp = NewGameTemp
    /\ action = Null
    /\ logWindow = NewLogWindow
    /\ dataSkills = DataSkills
    /\ criticalParam = DefaultCriticalParam
    /\ conditions = NoConditions

NextRate ==
    /\ last.op = "none"
    /\ Step({One, <<3, 2>>}, {[s \in StateIds |-> Half]}, {Half},
            {(1 :> Half @@ 2 :> Two), (2 :> One @@ 3 :> Half)}, {65})

SpecRate == InitRate /\ [][NextRate]_vars

\* Kill bonuses: an actor and an enemy defeat each other again and again, each
\* time with a list of up to three of four bonuses applying.
Settings ==
    {[DefaultSetting EXCEPT !.hpRate = 10, !.mpRate = 10, !.tpRate = 10,
                            !.expRate = 200, !.drop1Rate = 50],
     [DefaultSetting EXCEPT !.hp = 5, !.mp = -3, !.mpRate = 25,
                            !.goldRate = 150, !.drop1Rate = 20,
                            !.drop2Rate = 100],
     [DefaultSetting EXCEPT !.state = 1, !.expRate = 50, !.drop3Rate = 5],
     [DefaultSetting EXCEPT !.stateParty = 3, !.tp = 7]}

MaxBonuses == 3

\* the lists of distinct bonuses
BonusLists ==
    UNION {{q \in [1..n -> Settings] : \A i, j \in 1..n : i # j => q[i] # q[j]} :
              n \in 0..MaxBonuses}

\* the defeater's mhp, mmp and maxTp()
Stats == {[mhp |-> 100, mmp |-> 50, maxTp |-> 100],
          [mhp |-> 95, mmp |-> 95, maxTp |-> 100]}

InitKill ==
    /\ param = DefaultParam
    /\ battlers = [b \in Battlers |-> clearStates(NewBattler)]
    /\ last = Last("none", {}, FALSE, FALSE)
    /\ spriteRate = Null
    /\ kill = NoKill
    /\ recent = NoRecent
    /\ gameVariables = EmptyMap
    /\ gameSwitches = EmptyMap
    /\ gameTemp = NewGameTemp
    /\ action = Null
    /\ logWindow = NewLogWindow
    /\ dataSkills = DataSkills
    /\ criticalParam = DefaultCriticalParam
    /\ conditions = NoConditions

NextKill ==
    \E subject \in DOMAIN battlers, stats \in Stats, list \in BonusLists :
        \E target \in DOMAIN battlers \ {subject} :
            ExecuteKillBonus(subject, target, stats, list)

SpecKill == InitKill /\ [][NextKill]_vars

\* The gauge and saves: the gauge state of actor 1 is accumulated, removed and
\* shown, and saves are loaded.
\* actors of saves written before the plugin was installed
LegacyActors == {[states |-> S] : S \in {{}, {3}}}
\* actors of saves written with the plugin
SavedActors ==
    {NewBattler,
     [NewBattler EXCEPT !.stateAccumulations = (1 :> Half), !.stateImmunity = (1 :> 1)],
     [NewBattler EXCEPT !.states = {1}, !.stateAccumulations = (1 :> <<3, 2>>),
                        !.stateImmunity = (1 :> 1)]}
Saves == [{"actor1"} -> LegacyActors \cup SavedActors]

InitScene ==
    /\ param = DefaultParam
    /\ battlers = [b \in {"actor1"} |-> clearStates(NewBattler)]
    /\ last = Last("none", {}, FALSE, FALSE)
    /\ spriteRate = Null
    /\ kill = NoKill
    /\ recent = NoRecent
    /\ gameVariables = EmptyMap
    /\ gameSwitches = EmptyMap
    /\ gameTemp = NewGameTemp
    /\ action = Null
    /\ logWindow = NewLogWindow
    /\ dataSkills = DataSkills
    /\ criticalParam = DefaultCriticalParam
    /\ conditions = NoConditions

NextScene ==
    \/ \E shown \in BOOLEAN : Update("actor1", shown)
    \/ \E actors \in Saves : Load(actors)
    \/ \E stateId \in {1, 3}, r \in {-50, 50} : ACCUMULATE(1, -1, stateId, r)
    \/ \E value1 \in {Half, <<3, 2>>}, certainHit \in BOOLEAN :
          AddNormalState("actor1", 1, value1, certainHit, One, One, FALSE)
    \/ \E stateId \in {1, 3} : RemoveState("actor1", stateId)
    \/ RemoveBattleStates("actor1")

SpecScene == InitScene /\ [][NextScene]_vars

\* The command alone: one command with any arguments, given to an actor and,
\* when there is one, an enemy, who have triggered state 1 before or not.
ActorIds == {0, 1, 2}
EnemyIndexes == {-1, 0, 1}
CommandRates == {-100, -35, 0, 50, 65, 100}

InitCommand ==
    /\ param = DefaultParam
    /\ battlers \in [{"actor1"} -> RateBattlers] \cup [Battlers -> RateBattlers]
    /\ last = Last("none", {}, FALSE, FALSE)
    /\ spriteRate = Null
    /\ kill = NoKill
    /\ recent = NoRecent
    /\ gameVariables = EmptyMap
    /\ gameSwitches = EmptyMap
    /\ gameTemp = NewGameTemp
    /\ action = Null
    /\ logWindow = NewLogWindow
    /\ dataSkills = DataSkills
    /\ criticalParam = DefaultCriticalParam
    /\ conditions = NoConditions

NextCommand ==
    /\ last.op = "none"
    /\ \E actorId \in ActorIds, enemyIndex \in EnemyIndexes,
          stateId \in {0} \cup StateIds, r \in CommandRates :
          ACCUMULATE(actorId, enemyIndex, stateId, r)

SpecCommand == InitCommand /\ [][NextCommand]_vars

\* Kill bonus conditions: battles are set up, the battlers act, take damage,
\* die and defeat each other (the actor with any item, the enemy with a skill);
\* the trait objects of every defeater carry the bonuses of TraitBonuses.
Bonus(n, condition) == ("condition" :> condition) @@ [DefaultSetting EXCEPT !.hp = n]

TraitBonuses ==
    <<Bonus(1, Null),
      Null,
      Bonus(2, [DefaultCondition EXCEPT !.noDamage = TRUE]),
      Bonus(3, [DefaultCondition EXCEPT !.noSkill = TRUE]),
      Bonus(4, [DefaultCondition EXCEPT !.noDeath = TRUE]),
      Bonus(5, [DefaultCondition EXCEPT !.noDamage = TRUE, !.critical = TRUE]),
      Bonus(6, [DefaultCondition EXCEPT !.skillId = 3, !.turnCount = 2,
                                        !.switchId = 1, !.script = "s"])>>

Envs == {[turnCount |-> 1, switches |-> {1}, script |-> TRUE],
         [turnCount |-> 3, switches |-> {}, script |-> FALSE]}

InitCondition ==
    /\ param = DefaultParam
    /\ battlers = [b \in Battlers |-> clearStates(NewBattler)]
    /\ last = Last("none", {}, FALSE, FALSE)
    /\ spriteRate = Null
    /\ kill = NoKill
    /\ recent = NoRecent
    /\ gameVariables = EmptyMap
    /\ gameSwitches = EmptyMap
    /\ gameTemp = NewGameTemp
    /\ action = Null
    /\ logWindow = NewLogWindow
    /\ dataSkills = DataSkills
    /\ criticalParam = DefaultCriticalParam
    /\ conditions = NoConditions

NextCondition ==
    \/ Setup
    \/ \E target \in Battlers : PerformDamage(target)
    \/ \E target \in Battlers : Die(target)
    \/ \E item \in Items, result \in BOOLEAN : TestApply("actor1", item, result)
    \/ \E result \in BOOLEAN :
          TestApply("enemy0", [isSkill |-> TRUE, id |-> 3], result)
    \/ \E subject \in Battlers, critical \in BOOLEAN, env \in Envs :
          \E target \in Battlers \ {subject} :
              ExecuteKillBonus(subject, target, [mhp |-> 100, mmp |-> 50, maxTp |-> 100],
                               findKillBonusParamList(conditions[subject],
                                                      TraitBonuses, critical, env))

SpecCondition == InitCondition /\ [][NextCondition]_vars

\* Critical customization: actions of the actor and the enemy, one after the
\* other, each with up to MaxTargets hits on the one member of a unit.
MaxTargets == 2

TargetLists == {[i \in 1..n |-> t] : n \in 0..MaxTargets, t \in Battlers}

CriticalParams ==
    {[DefaultCriticalParam EXCEPT !.suppressDefault = TRUE],
     [DefaultCriticalParam EXCEPT !.commonMessage = "Critical!",
                                  !.commonAnimation = 9],
     [DefaultCriticalParam EXCEPT !.suppressDefault = TRUE,
                                  !.commonMessage = "Critical!",
                                  !.commonFormula = "a.atk - b.def * 2"]}

InitCritical ==
    /\ param = DefaultParam
    /\ battlers = [b \in Battlers |-> clearStates(NewBattler)]
    /\ last = Last("none", {}, FALSE, FALSE)
    /\ spriteRate = Null
    /\ kill = NoKill
    /\ recent = NoRecent
    /\ gameVariables = EmptyMap
    /\ gameSwitches = EmptyMap
    /\ gameTemp = NewGameTemp
    /\ conditions = NoConditions
    /\ criticalParam \in CriticalParams
    /\ dataSkills = DataSkills
    /\ logWindow = NewLogWindow
    /\ action = Null

NextCritical ==
    \/ \E subject \in Battlers, itemId \in DOMAIN DataSkills, targets \in TargetLists :
          \E outcomes \in [1..Len(targets) -> BOOLEAN] :
              StartAction(subject, itemId, targets, outcomes, Half)
    \/ \E used, hit, roll \in BOOLEAN : InvokeAction(used, hit, roll, Half, 10, 3, 7)
    \/ EndAction

SpecCritical == InitCritical /\ [][NextCritical]_vars

\* Critical damage: one action on one target, under every kind of common
\* formula, with the subject's attack, the target's defence and the normal
\* damage drawn from small sets.
DamageParams ==
    {[DefaultCriticalParam EXCEPT !.commonFormula = f] :
        f \in {"", "a.atk - b.def * 2", "a.atk * b.foo", "b.foo.bar"}}

InitDamage ==
    /\ param = DefaultParam
    /\ battlers = [b \in Battlers |-> clearStates(NewBattler)]
    /\ last = Last("none", {}, FALSE, FALSE)
    /\ spriteRate = Null
    /\ kill = NoKill
    /\ recent = NoRecent
    /\ gameVariables = EmptyMap
    /\ gameSwitches = EmptyMap
    /\ gameTemp = NewGameTemp
    /\ conditions = NoConditions
    /\ criticalParam \in DamageParams
    /\ dataSkills = DataSkills
    /\ logWindow = NewLogWindow
    /\ action = Null

NextDamage ==
    \/ /\ action = Null
       /\ \E itemId \in DOMAIN DataSkills, outcome \in BOOLEAN :
             StartAction("actor1", itemId, <<"enemy0">>, <<outcome>>, Half)
    \/ \E used, hit, roll \in BOOLEAN, def \in {3, 30}, normalDamage \in {-4, 0, 7} :
          InvokeAction(used, hit, roll, Half, 10, def, normalDamage)

SpecDamage == InitDamage /\ [][NextDamage]_vars

\* Action results: two actors and two enemies act in any order, each action
\* on any targets.
Members ==
    {gameActors[id] : id \in DOMAIN gameActors}
        \cup {troopMembers[i] : i \in DOMAIN troopMembers}

\* target.result() after apply
ActionResults ==
    {[missed |-> FALSE, evaded |-> FALSE, critical |-> TRUE, success |-> TRUE,
      hpDamage |-> 30, addedStates |-> <<4>>],
     [missed |-> FALSE, evaded |-> FALSE, critical |-> FALSE, success |-> TRUE,
      hpDamage |-> -12, addedStates |-> <<>>],
     [missed |-> TRUE, evaded |-> FALSE, critical |-> FALSE, success |-> FALSE,
      hpDamage |-> 0, addedStates |-> <<>>]}

InitKeep ==
    /\ param = DefaultParam
    /\ battlers = [b \in Battlers |-> clearStates(NewBattler)]
    /\ last = Last("none", {}, FALSE, FALSE)
    /\ spriteRate = Null
    /\ kill = NoKill
    /\ conditions = NoConditions
    /\ criticalParam = DefaultCriticalParam
    /\ dataSkills = DataSkills
    /\ logWindow = NewLogWindow
    /\ action = Null
    /\ gameTemp = NewGameTemp
    /\ gameSwitches = EmptyMap
    /\ gameVariables = EmptyMap
    /\ recent = NoRecent

NextKeep ==
    \/ \E subject \in Members, item \in Items : ApplyGlobal(subject, item)
    \/ \E target \in Members, result \in ActionResults : Apply(target, result)

SpecKeep == InitKeep /\ [][NextKeep]_vars

\* ------------------------------------------------------------------------
\* Claims
\* ------------------------------------------------------------------------
\* the deltas the claims about accumulateState are checked for
Deltas == {<<-1, 2>>, Zero, <<2, 5>>, Half, <<13, 20>>, One, <<3, 2>>}

Accumulative == {e \in StateIds : isStateAccumulate(e)}

Actor == battlers["actor1"]

\* C1: for an accumulative effect e, accumulateState(e, d) stores the old
\* accumulation of e (0 when absent) plus d; when e was not active and the new
\* total is >= 1.0, e becomes active, immunityCount[e] grows by exactly 1 and
\* the call returns true; otherwise it returns false and neither the active
\* set nor the immunity map changes.  The last conjunct is the example of the
\* specification: 0.4 then 0.65 activates on the second call.
C1_AccumulateActivatesAtThreshold ==
    /\ \A t \in DOMAIN battlers, e \in Accumulative, d \in Deltas :
          LET b == battlers[t]
              total == Add(getStateAccumulation(b, e), d)
              r == accumulateState(b, e, d)
          IN  /\ e \in DOMAIN r.battler.stateAccumulations
              /\ r.battler.stateAccumulations[e] = total
              /\ IF e \notin b.states /\ Leq(One, total)
                 THEN /\ r.ret
                      /\ r.battler.states = b.states \cup {e}
                      /\ GetInt(r.battler.stateImmunity, e)
                             = GetInt(b.stateImmunity, e) + 1
                 ELSE /\ ~r.ret
                      /\ r.battler.states = b.states
                      /\ r.battler.stateImmunity = b.stateImmunity
    /\ LET r1 == accumulateState(NewBattler, 1, <<2, 5>>)
           r2 == accumulateState(r1.battler, 1, <<13, 20>>)
       IN  /\ ~r1.ret /\ r2.ret /\ 1 \in r2.battler.states
           /\ r2.battler.stateAccumulations[1] = <<21, 20>>
           /\ r2.battler.stateImmunity[1] = 1

\* C1 witness: the command has just pushed state 1 over the threshold for the
\* first time.
C1_Witness ==
    /\ last.op = "ACCUMULATE"
    /\ 1 \in Actor.states
    /\ getStateAccumulation(Actor, 1) = One
    /\ GetInt(Actor.stateImmunity, 1) = 1

\* C2: while an accumulative effect e is active, no accumulate call for e
\* returns true, changes the active set or changes immunityCount[e], whatever
\* the delta and however far the stored total is above 1.0.
C2_ActivationIsOneShot ==
    \A t \in DOMAIN battlers, e \in Accumulative, d \in Deltas :
        e \in battlers[t].states =>
            LET r == accumulateState(battlers[t], e, d)
            IN  /\ ~r.ret
                /\ r.battler.states = battlers[t].states
                /\ r.battler.stateImmunity = battlers[t].stateImmunity

\* C2 witness: state 1 is active with a stored total above 1.0 after a further
\* accumulation, and has triggered exactly once.
C2_Witness ==
    /\ last.op = "itemEffectAddNormalState"
    /\ 1 \in Actor.states
    /\ Lt(One, getStateAccumulation(Actor, 1))
    /\ GetInt(Actor.stateImmunity, 1) = 1
    /\ ~last.success

C4_RemovalResetsAccumulation ==
    [][last'.op \in {"removeState", "eraseState"} =>
          \A t \in DOMAIN battlers \cap DOMAIN battlers', e \in StateIds :
              (e \in battlers[t].states /\ e \notin battlers'[t].states) =>
                  /\ getStateAccumulation(battlers'[t], e) = Zero
                  /\ e \notin DOMAIN battlers'[t].stateAccumulations
                  /\ battlers'[t].stateImmunity = battlers[t].stateImmunity]_vars

\* C4 witness: state 1 was active, has just been removed, and its immunity
\* count is still 1.
C4_Witness ==
    /\ last.op = "removeState"
    /\ 1 \notin Actor.states
    /\ getStateAccumulation(Actor, 1) = Zero
    /\ GetInt(Actor.stateImmunity, 1) = 1

\* C5 (as claimed): right after clearStates on a character, accumulation[e]
\* and immunityCount[e] read 0 for every effect e.
C5_ClearStatesClearsMaps ==
    last.op = "clearStates" =>
        \A t \in last.targets, e \in StateIds :
            /\ getStateAccumulation(battlers[t], e) = Zero
            /\ GetInt(battlers[t].stateImmunity, e) = 0

\* C6: immunityCount[e] changes only by +1 and only in a step that calls
\* accumulate on that character and in which e becomes active; in particular
\* it never decreases.
C6_ImmunityOnlyGrowsOnActivation ==
    [][\A t \in DOMAIN battlers \cap DOMAIN battlers', e \in StateIds :
          GetInt(battlers'[t].stateImmunity, e) # GetInt(battlers[t].stateImmunity, e) =>
              /\ GetInt(battlers'[t].stateImmunity, e)
                     = GetInt(battlers[t].stateImmunity, e) + 1
              /\ e \notin battlers[t].states
              /\ e \in battlers'[t].states
              /\ Leq(One, getStateAccumulation(battlers'[t], e))
              /\ last'.op \in {"ACCUMULATE", "itemEffectAddNormalState",
                               "itemEffectAddAttackState"}
              /\ t \in last'.targets]_vars

\* C6 witness: state 2 has triggered a second time, by an attack-state effect.
C6_Witness ==
    /\ last.op = "itemEffectAddAttackState"
    /\ last.success
    /\ 2 \in Actor.states
    /\ GetInt(Actor.stateImmunity, 2) = 2

\* the accumulateState calls of an "Add State" effect on an accumulative state
NormalCalls(t, e, value1, certainHit, stateRate, luk) ==
    itemEffectAddNormalState(battlers[t], e, value1, certainHit, stateRate, luk,
                             FALSE).calls

InUnitRange(x) == Leq(Zero, x) /\ Leq(x, One)

\* what claim C9 and the specification give for the rate: the effectiveness
\* factor left out, luck (when enabled), resistance and the clamp applied
WithoutEffectiveness(b, e, base, luk) ==
    clamp(Mul(IF param.LuckAdjust THEN Mul(base, luk) ELSE base,
              Sub(One, getStateImmunity(b, e))), Zero, One)

CombatOps == {"itemEffectAddNormalState", "itemEffectAddAttackState"}

C10_FullImmunityStopsAccumulation ==
    [][(param.ImmunityRate = 100 /\ last'.op \in CombatOps) =>
          \A t \in DOMAIN battlers, e \in Accumulative :
              GetInt(battlers[t].stateImmunity, e) >= 1 =>
                  getStateAccumulation(battlers'[t], e)
                      = getStateAccumulation(battlers[t], e)]_vars

AccumulateOps ==
    {"ACCUMULATE", "itemEffectAddNormalState", "itemEffectAddAttackState"}

\* C11: the resistance of e is immunityCount[e] * ImmunityRate / 100 (0 when e
\* never triggered); a step in which an accumulate call activates e raises it
\* by exactly ImmunityRate / 100, strictly when the rate is > 0 and not at all
\* when it is 0; no other step changes it.
C11_ResistanceIsCountTimesRate ==
    [][\A t \in DOMAIN battlers \cap DOMAIN battlers', e \in StateIds :
          LET before == getStateImmunity(battlers[t], e)
              after == getStateImmunity(battlers'[t], e)
              activated == /\ last'.op \in AccumulateOps
                           /\ isStateAccumulate(e)
                           /\ e \notin battlers[t].states
                           /\ e \in battlers'[t].states
          IN  /\ before = Norm(GetInt(battlers[t].stateImmunity, e)
                                   * param.ImmunityRate, 100)
              /\ after = Norm(GetInt(battlers'[t].stateImmunity, e)
                                  * param.ImmunityRate, 100)
              /\ IF activated
                 THEN /\ after = Add(before, Norm(param.ImmunityRate, 100))
                      /\ param.ImmunityRate > 0 => Lt(before, after)
                      /\ param.ImmunityRate = 0 => after = before
                 ELSE after = before]_vars

\* C11 witness: under an immunity rate of 100 the command has activated state 1
\* a second time, so its resistance is 2.0.
C11_Witness ==
    /\ last.op = "ACCUMULATE"
    /\ param.ImmunityRate = 100
    /\ 1 \in Actor.states
    /\ GetInt(Actor.stateImmunity, 1) = 2
    /\ getStateImmunity(Actor, 1) = Two

\* C12: with no custom formula, the delta of a state-infliction effect that is
\* not a certain hit is clamp(base * effectiveness * luck factor (1 when luck
\* adjustment is off) * (1 - resistance), 0, 1); base 0.8 with effectiveness
\* 0.5, luck adjustment off and no resistance gives 0.4.
C12_DefaultRateIsProduct ==
    param.AccumulateFormula = "" =>
        \A t \in DOMAIN battlers, e \in Accumulative, value1 \in Value1s,
           stateRate \in Rates, luk \in LukRates :
            LET calls == NormalCalls(t, e, value1, FALSE, stateRate, luk)
                resistance == Norm(GetInt(battlers[t].stateImmunity, e)
                                       * param.ImmunityRate, 100)
                luckFactor == IF param.LuckAdjust THEN luk ELSE One
                product == Mul(Mul(Mul(value1, stateRate), luckFactor),
                               Sub(One, resistance))
            IN  /\ Len(calls) = 1
                /\ calls[1].stateId = e
                /\ calls[1].value = RMin(RMax(product, Zero), One)
                /\ (value1 = <<4, 5>> /\ stateRate = Half /\ ~param.LuckAdjust
                        /\ resistance = Zero) => calls[1].value = <<2, 5>>

\* C12 witness: with no formula and luck adjustment off, an effect of 150% on
\* a target of effectiveness 50% has added 0.75 to state 2.
C12_Witness ==
    /\ last.op = "itemEffectAddNormalState"
    /\ param.AccumulateFormula = ""
    /\ ~param.LuckAdjust
    /\ getStateAccumulation(Actor, 2) = <<3, 4>>
    /\ 2 \notin Actor.states

\* C13 (as claimed): with the battle-end reset enabled, the battle-end step
\* makes accumulation[e] 0 for every effect e flagged removeAtBattleEnd whose
\* value was > 0, and leaves the accumulation of every other effect, every
\* value <= 0 and every immunityCount as it was.
C13_BattleEndResetsOnlyPositiveFlagged ==
    [][(param.ResetAccumulateEndBattle /\ last'.op = "removeBattleStates") =>
          \A t \in last'.targets, e \in StateIds :
              LET old == getStateAccumulation(battlers[t], e)
                  new == getStateAccumulation(battlers'[t], e)
              IN  /\ IF dataStates[e].removeAtBattleEnd /\ Lt(Zero, old)
                     THEN new = Zero
                     ELSE new = old
                  /\ battlers'[t].stateImmunity = battlers[t].stateImmunity]_vars

\* C13 (amended): with the battle-end reset enabled, the battle-end step
\* removes every active effect flagged removeAtBattleEnd and with it deletes
\* its accumulation entry, whatever the value; of the other entries it sets
\* to 0 exactly those of flagged effects whose value is > 0; every other
\* entry and every immunityCount is left as it was.
C13_BattleEndRemovesThenResets ==
    [][(param.ResetAccumulateEndBattle /\ last'.op = "removeBattleStates") =>
          \A t \in last'.targets, e \in StateIds :
              LET b == battlers[t]
                  c == battlers'[t]
                  flagged == dataStates[e].removeAtBattleEnd
                  stored == e \in DOMAIN b.stateAccumulations
              IN  /\ (e \in c.states) = (e \in b.states /\ ~flagged)
                  /\ IF flagged /\ e \in b.states
                     THEN e \notin DOMAIN c.stateAccumulations
                     ELSE /\ (e \in DOMAIN c.stateAccumulations) = stored
                          /\ stored =>
                                 c.stateAccumulations[e] =
                                     IF flagged /\ Lt(Zero, b.stateAccumulations[e])
                                     THEN Zero ELSE b.stateAccumulations[e]
                  /\ c.stateImmunity = b.stateImmunity]_vars

\* C13 witness: after a battle end with the reset enabled, the flagged state
\* 1 is stored as 0 and the unflagged state 2 is still at 0.5.
C13_Witness ==
    /\ last.op = "removeBattleStates"
    /\ param.ResetAccumulateEndBattle
    /\ 1 \in DOMAIN Actor.stateAccumulations
    /\ Actor.stateAccumulations[1] = Zero
    /\ getStateAccumulation(Actor, 2) = Half

\* effect ids given to accumulate: below 1, without the tag, not in the database
EffectIds == {-1, 0} \cup StateIds \cup {Cardinality(StateIds) + 1}

Tagged == {e \in StateIds : dataStates[e].Accumulate}

\* C14: for an effect id that is not accumulative (id <= 0, not in the
\* database, or without the tag) accumulate returns false and changes neither
\* map nor the active set; no map ever holds an entry for such an effect.
C14_NonAccumulativeIsNoOp ==
    \A t \in DOMAIN battlers :
        /\ \A id \in EffectIds \ Tagged, d \in Deltas :
               /\ ~isStateAccumulate(id)
               /\ accumulateState(battlers[t], id, d)
                      = [battler |-> battlers[t], ret |-> FALSE]
        /\ DOMAIN battlers[t].stateAccumulations \subseteq Tagged
        /\ DOMAIN battlers[t].stateImmunity \subseteq Tagged

\* C14 witness: the command has been run on the actor, who has the ordinary
\* state 3, and both maps are still empty.
C14_Witness ==
    /\ last.op = "ACCUMULATE"
    /\ last.targets = {"actor1"}
    /\ Actor.states = {3}
    /\ DOMAIN Actor.stateAccumulations = {}
    /\ DOMAIN Actor.stateImmunity = {}

\* C15 (as claimed): an accumulative effect becomes active only in a step
\* that calls accumulate on the character and leaves its stored accumulation
\* at 1.0 or more.
C15_ActiveOnlyThroughThreshold ==
    [][\A t \in DOMAIN battlers, e \in Tagged :
          (e \notin battlers[t].states /\ e \in battlers'[t].states) =>
              /\ last'.op \in AccumulateOps
              /\ t \in last'.targets
              /\ Leq(One, getStateAccumulation(battlers'[t], e))]_vars

\* an effect that is active before and after a step that is not a load
StaysActive(t, e) ==
    /\ last'.op # "onAfterLoad"
    /\ e \in battlers[t].states
    /\ e \in battlers'[t].states

\* a gauge update changes no battler and leaves in _rate the smaller of the
\* stored accumulation of the gauge state and 1.0 (or the old _rate when the
\* gauge is not visible)
UpdateIsCappedView ==
    last'.op = "updateRate" =>
        /\ battlers' = battlers
        /\ \A t \in last'.targets :
               LET stored == Get(battlers[t].stateAccumulations,
                                 dataActors[t].AccumulateGaugeState)
               IN  spriteRate' \in {spriteRate,
                                    IF Leq(stored, One) THEN stored ELSE One}

\* C16 (as claimed): the gauge query returns min(stored accumulation, 1.0) and
\* modifies nothing, and the stored value of an active effect that has reached
\* 1.0 stays at 1.0 or more for as long as the effect remains active.
C16_StoredStaysAboveThreshold ==
    [][/\ UpdateIsCappedView
       /\ \A t \in DOMAIN battlers \cap DOMAIN battlers', e \in Tagged :
              (StaysActive(t, e) /\ Leq(One, getStateAccumulation(battlers[t], e)))
                  => Leq(One, getStateAccumulation(battlers'[t], e))]_vars

\* C16 (amended): the gauge query returns min(stored accumulation, 1.0) and
\* modifies nothing; the stored value of an active effect is lowered by no
\* step but the ACCUMULATE command (with a negative rate), which can take it
\* below 1.0 while the effect stays active.
C16_OnlyCommandLowersStored ==
    [][/\ UpdateIsCappedView
       /\ \A t \in DOMAIN battlers \cap DOMAIN battlers', e \in Tagged :
              StaysActive(t, e) =>
                  \/ Leq(getStateAccumulation(battlers[t], e),
                         getStateAccumulation(battlers'[t], e))
                  \/ /\ last'.op = "ACCUMULATE"
                     /\ getStateAccumulation(battlers'[t], e)
                            = Sub(getStateAccumulation(battlers[t], e), Half)]_vars

\* C16 witness: the gauge shows 1.0 while the active state 1 is stored at 2.0.
C16_Witness ==
    /\ last.op = "updateRate"
    /\ spriteRate = One
    /\ 1 \in Actor.states
    /\ getStateAccumulation(Actor, 1) = Two

\* C17: the command with rate r changes the stored accumulation of the given
\* accumulative state by exactly r / 100 on the actor named by actorId and on
\* the enemy at enemyIndex, each when it exists, and on nobody else; the state
\* is activated (and the immunity count raised) exactly when it was not
\* active and the new total is >= 1.0; with actorId 0 and enemyIndex -1
\* nothing changes.
C17_CommandAddsRate ==
    \A actorId \in ActorIds, enemyIndex \in EnemyIndexes, e \in Tagged,
       r \in CommandRates :
        LET out == commandACCUMULATE(battlers, actorId, enemyIndex, e, r)
            addressed == {t \in DOMAIN battlers :
                             \/ t = "actor1" /\ actorId = 1
                             \/ t = "enemy0" /\ enemyIndex = 0}
        IN  /\ DOMAIN out = DOMAIN battlers
            /\ \A t \in DOMAIN battlers \ addressed : out[t] = battlers[t]
            /\ \A t \in addressed :
                   LET b == battlers[t]
                       total == Add(Get(b.stateAccumulations, e), Norm(r, 100))
                       activates == e \notin b.states /\ Leq(One, total)
                   IN  /\ out[t].stateAccumulations
                              = Put(b.stateAccumulations, e, total)
                       /\ out[t].states
                              = IF activates THEN b.states \cup {e} ELSE b.states
                       /\ out[t].stateImmunity
                              = IF activates
                                THEN Put(b.stateImmunity, e,
                                         GetInt(b.stateImmunity, e) + 1)
                                ELSE b.stateImmunity
            /\ (actorId = 0 /\ enemyIndex = -1) => out = battlers

\* C17 witness: one command has added 0.65 to state 1 of the actor, which
\* activated it at 1.15, and of the enemy, which is at 0.65.
C17_Witness ==
    /\ last.op = "ACCUMULATE"
    /\ last.targets = {"actor1", "enemy0"}
    /\ 1 \in Actor.states
    /\ getStateAccumulation(Actor, 1) = <<23, 20>>
    /\ 1 \notin battlers["enemy0"].states
    /\ getStateAccumulation(battlers["enemy0"], 1) = <<13, 20>>

HasMaps(b) == {"stateAccumulations", "stateImmunity"} \subseteq DOMAIN b

\* C18: loading a save leaves every restored actor with both maps, created
\* empty when the save had none and kept as stored otherwise, the active
\* states being those of the save; from then on every battler has both maps,
\* absent entries read 0 and accumulate works on it.
C18_LoadedActorsHaveMaps ==
    /\ \A actors \in Saves, t \in {"actor1"} :
           LET out == onAfterLoad(actors)
           IN  /\ DOMAIN out = DOMAIN actors
               /\ HasMaps(out[t])
               /\ out[t].states = actors[t].states
               /\ IF HasMaps(actors[t])
                  THEN out[t] = actors[t]
                  ELSE /\ DOMAIN out[t].stateAccumulations = {}
                       /\ DOMAIN out[t].stateImmunity = {}
    /\ \A t \in DOMAIN battlers :
           /\ HasMaps(battlers[t])
           /\ \A e \in EffectIds :
                  /\ e \notin DOMAIN battlers[t].stateAccumulations
                         => /\ getStateAccumulation(battlers[t], e) = Zero
                            /\ getGaugeStateId(t) = e
                                   => updateRate(battlers[t], t) = Zero
                  /\ e \notin DOMAIN battlers[t].stateImmunity
                         => getStateImmunity(battlers[t], e) = Zero
                  /\ HasMaps(accumulateState(battlers[t], e, Half).battler)

\* C18 witness: a save written without the plugin, in which the actor has the
\* ordinary state 3, has been loaded; both maps are there and empty.
C18_Witness ==
    /\ last.op = "onAfterLoad"
    /\ Actor.states = {3}
    /\ HasMaps(Actor)
    /\ DOMAIN Actor.stateAccumulations = {}
    /\ DOMAIN Actor.stateImmunity = {}

Maximum(S) == CHOOSE m \in S : \A x \in S : x <= m

\* the list in another order
Reordered(list, q) == [i \in 1..Len(list) |-> list[q[i]]]

\* C19: after a kill to which one or more bonuses apply, the defeated
\* battler's experience rate, gold rate and three drop rates are the maxima
\* of the bonuses' values, and processing the bonuses in any other order
\* gives the same rates.
C19_RewardRatesAreMaxima ==
    (last.op = "executeKillBonus" /\ Len(kill.list) >= 1) =>
        LET list == kill.list
            n == Len(list)
        IN  /\ kill.customRewardRate # Null
            /\ kill.customRewardRate.expRate
                   = Maximum({list[i].expRate : i \in 1..n})
            /\ kill.customRewardRate.goldRate
                   = Maximum({list[i].goldRate : i \in 1..n})
            /\ kill.customRewardRate.dropRate
                   = <<Maximum({list[i].drop1Rate : i \in 1..n}),
                       Maximum({list[i].drop2Rate : i \in 1..n}),
                       Maximum({list[i].drop3Rate : i \in 1..n})>>
            /\ \A q \in Permutations(1..n) :
                   executeKillBonus(battlers, kill.subject, kill.stats,
                                    Reordered(list, q)).customRewardRate
                       = kill.customRewardRate

\* C19 witness: two bonuses applied; the experience rate 200 comes from the
\* second one, the gold rate 150 and the second drop rate from the first.
C19_Witness ==
    /\ last.op = "executeKillBonus"
    /\ Len(kill.list) = 2
    /\ kill.list[1].expRate = 100
    /\ kill.customRewardRate
           = [dropRate |-> <<50, 100, 0>>, goldRate |-> 150, expRate |-> 200]

RECURSIVE Sum(_, _)
\* the sum of the first n numbers of a sequence
Sum(q, n) == IF n = 0 THEN 0 ELSE Sum(q, n - 1) + q[n]

\* C20 (as claimed): the MP a kill restores to the defeater is the sum over
\* the applicable bonuses of the MP amount and floor(MP rate percent of the
\* defeater's maximum MP); HP and TP likewise with maximum HP and maximum TP;
\* each resource with a total other than 0 is applied once.
C20_RecoveryFromOwnMaximum ==
    last.op = "executeKillBonus" =>
        LET list == kill.list
            n == Len(list)
            hp == Sum([i \in 1..n |->
                          list[i].hp + (kill.stats.mhp * list[i].hpRate) \div 100], n)
            mp == Sum([i \in 1..n |->
                          list[i].mp + (kill.stats.mmp * list[i].mpRate) \div 100], n)
            tp == Sum([i \in 1..n |->
                          list[i].tp + (kill.stats.maxTp * list[i].tpRate) \div 100], n)
        IN  /\ kill.gainHp = hp
            /\ kill.gainMp = mp
            /\ kill.gainTp = tp
            /\ ("hp" \in kill.gained) = (hp # 0)
            /\ ("mp" \in kill.gained) = (mp # 0)
            /\ ("tp" \in kill.gained) = (tp # 0)


\* the three flags with the operation that breaks each
FlagNames == {"noDamage", "noSkill", "noDeath"}

Breaks(op) ==
    CASE op = "performDamage" -> {"noDamage"}
      [] op = "testApply" -> {"noSkill"}
      [] op = "die" -> {"noDeath"}
      [] OTHER -> {}

\* the bonuses of the defeater's trait objects that have no condition
Unconditional ==
    {i \in 1..Len(TraitBonuses) :
        TraitBonuses[i] # Null /\ TraitBonuses[i].condition = Null}

\* those whose condition requires flag f and nothing else
Requiring(f) ==
    {i \in 1..Len(TraitBonuses) :
        /\ TraitBonuses[i] # Null
        /\ TraitBonuses[i].condition # Null
        /\ TraitBonuses[i].condition =
               [DefaultCondition EXCEPT ![f] = TRUE]}

Granted(k, i) == \E j \in 1..Len(k.list) : k.list[j] = TraitBonuses[i]

\* C21: every battler that can be a defeater has the no-damage, no-skill and
\* no-death flags true after battle setup; a flag turns false at the battler's
\* damage, applied action other than attack and guard, and death, and stays
\* false until the next setup; at a kill a bonus that requires one flag is
\* granted exactly when the defeater's flag is still true, and a bonus without
\* condition is always granted.
C21_FlagsDecideBonus ==
    [][/\ last'.op = "setup" =>
             \A b \in Battlers, f \in FlagNames : Flag(conditions'[b], f)
       /\ \A b \in last'.targets, f \in Breaks(last'.op) : ~Flag(conditions'[b], f)
       /\ last'.op # "setup" =>
             \A b \in Battlers, f \in FlagNames :
                 ~Flag(conditions[b], f) => ~Flag(conditions'[b], f)
       /\ last'.op = "executeKillBonus" =>
             /\ \A i \in Unconditional : Granted(kill', i)
             /\ \A f \in FlagNames : \A i \in Requiring(f) :
                    Granted(kill', i) <=> Flag(conditions[kill'.subject], f)]_vars


\* the action whose item has a damage type has hit its i-th target
Damaged(i) ==
    action.invoked[i].hit /\ dataSkills[action.item].damageType > 0

\* the default critical message would be shown for the i-th target
WouldShow(i) == action.invoked[i].used /\ action.invoked[i].critical

\* C22: with suppressDefault on, no target of an action that showed the
\* dedicated critical message gets the default critical message, and every
\* critical target of an action that showed none gets it.
C22_SuppressedForWholeAction ==
    (action # Null /\ criticalParam.suppressDefault) =>
        \A i \in 1..Len(action.invoked) :
            IF \E j \in 1..Len(logWindow.methods) : logWindow.methods[j] = "addText"
            THEN ~action.invoked[i].text
            ELSE action.invoked[i].text = WouldShow(i)

\* what showCriticalEffect pushes for the subject
Effects(subject) ==
    LET own == criticalEffects[subject]
    IN  (IF own.CCMessage # "" \/ criticalParam.commonMessage # ""
         THEN <<"addText">> ELSE <<>>)
        \o (IF own.CCAnimation > 0 \/ (own.CCAnimation = 0
                                          /\ criticalParam.commonAnimation > 0)
            THEN <<"showNormalAnimation", "waitForAnimation">> ELSE <<>>)

\* C24: the dedicated message and the staging animation are pushed at action
\* start, and the animation of the item is swapped for its <CCAnimation> while
\* the action runs, if and only if one of the outcomes judged for its targets
\* is critical.
C24_EffectsIffSomeCritical ==
    action # Null =>
        LET some == \E i \in 1..Len(action.judged) : action.judged[i]
            item == dataSkills[action.item]
        IN  /\ logWindow.methods = IF some THEN Effects(action.subject) ELSE <<>>
            /\ logWindow.currentAction # Null =>
                   item.animationId = IF some /\ item.CCAnimation # 0
                                      THEN item.CCAnimation ELSE action.original

\* an action with two outcomes of which only the second is critical has shown
\* the effects and swapped the animation
C24_Witness ==
    /\ action # Null
    /\ action.judged = <<FALSE, TRUE>>
    /\ logWindow.currentAction # Null
    /\ logWindow.methods # <<>>
    /\ dataSkills[action.item].animationId # action.original

\* the critical formula configured for the item of the action: its memo tag,
\* else the common parameter, "" when there is none
Configured ==
    LET item == dataSkills[action.item]
    IN  IF item.CCFormula # "" THEN item.CCFormula ELSE criticalParam.commonFormula

\* C25: a critical hit of an item with a critical formula deals
\* max(formula value, 0), negated for the recovery damage types, and 0 when
\* the formula throws or yields NaN, without the critical multiplier; a hit
\* that is not critical deals the normal formula damage.
C25_CriticalFormulaDamage ==
    action # Null =>
        \A i \in 1..Len(action.invoked) :
            LET r == action.invoked[i]
                v == evalCritical(Configured, r.atk, r.def, r.normalDamage)
                recovery == dataSkills[action.item].damageType \in {3, 4}
            IN  Damaged(i) =>
                    /\ (r.critical /\ Configured # "") =>
                           r.value = IF v.kind # "number" THEN 0
                                     ELSE IF v.n <= 0 THEN 0
                                     ELSE IF recovery THEN 0 - v.n ELSE v.n
                    /\ ~r.critical => r.value = r.normalDamage

\* a critical recovery with a critical formula has been dealt, and it is
\* negative
C25_Witness ==
    /\ action # Null
    /\ Len(action.invoked) = 1
    /\ Damaged(1)
    /\ action.invoked[1].critical
    /\ Configured # ""
    /\ dataSkills[action.item].damageType = 3
    /\ action.invoked[1].value < 0

\* C26: each target gets the outcome that was judged for it, and the queue
\* loses one entry per target, whether the target is hit, missed or evaded.
C26_TargetGetsItsOwnOutcome ==
    (action # Null /\ Len(action.judged) = Len(action.targets)) =>
        /\ Len(action.criticalQueue) = Len(action.judged) - Len(action.invoked)
        /\ \A i \in 1..Len(action.invoked) :
               Damaged(i) => action.invoked[i].critical = action.judged[i]

\* C27: after endAction the animation of the used item is the one it had
\* before startAction.
C27_AnimationRestored ==
    last.op = "endAction" => dataSkills[action.item].animationId = action.original


\* C23: once an action has started, lastSubject() is its subject and
\* lastSkill() its skill or item; once it has been applied, lastTarget() is its
\* latest target and every configured switch and variable holds its property
\* of the latest result.
C23_LastActionIsTheMostRecent ==
    /\ recent.subject # "" =>
           /\ findSubject(gameTemp) = recent.subject
           /\ findItem(gameTemp) = recent.item
    /\ recent.target # "" =>
           /\ findTarget(gameTemp) = recent.target
           /\ \A i \in 1..Len(keepParam.flagResultList) :
                  Get(gameSwitches, keepParam.flagResultList[i].switchId)
                      = recent.result[keepParam.flagResultList[i].property]
           /\ \A i \in 1..Len(keepParam.variableResultList) :
                  Get(gameVariables, keepParam.variableResultList[i].variableId)
                      = recent.result[keepParam.variableResultList[i].property]

\* the second enemy has just acted with an item on the second actor, after an
\* actor had acted with a skill on an enemy
C23_Witness ==
    /\ recent.subject = "enemy1"
    /\ recent.target = "actor2"
    /\ ~recent.item.isSkill
    /\ lastActionData(gameTemp, 2) # 0
    /\ lastActionData(gameTemp, 0) # 0
    /\ lastActionData(gameTemp, 5) # 0
    /\ recent.result.critical

====
